---- MODULE Spec2Model ----
(***************************************************************************)
(* Model of src/app.py: the Streamlit script that downloads daily          *)
(* close/volume rows, derives MA_20 and Return, drops incomplete rows,     *)
(* fits a Prophet model with the selected regressors and predicts over a   *)
(* future frame whose regressor columns are filled from the last row.      *)
(*                                                                         *)
(* Dates are day numbers.  A cell of a frame is a record                   *)
(* [nan, num, den]: NaN/NaT, or the exact rational num/den (pandas' float  *)
(* arithmetic is modelled exactly; prices are positive, so no division by  *)
(* zero arises).  A frame is a sequence of rows; idx is the pandas index   *)
(* label a row received from reset_index (0-based), which dropna keeps.    *)
(***************************************************************************)
EXTENDS Integers, Sequences, FiniteSets, TLC

VARIABLES
    seed, badDay, badCol, padFill,   \* the market data source and the pandas build
    start_date, end_date, horizon,   \* sidebar widgets, lines 16-22
    use_vol, use_ma, use_ret,        \* sidebar checkboxes, lines 25-27
    cache,                           \* st.cache_data store of load_data, line 29
    df,                              \* line 56
    model,                           \* the Prophet object, lines 59-68
    future,                          \* lines 70-73
    forecast,                        \* line 75
    pc,                              \* position of the script run
    trigger,                         \* the widget whose change started this run
    events,                          \* fetch / fit / predict calls made by this run
    fetched,                         \* keys yf.download has been called with
    refetch                          \* some key was downloaded more than once

world == <<seed, badDay, badCol, padFill>>
config == <<start_date, end_date, horizon, use_vol, use_ma, use_ret>>
run == <<df, model, future, forecast, pc, trigger, events>>
vars == <<world, config, cache, run, fetched, refetch>>

----------------------------------------------------------------------------
(* Bounds of the model and constants of the program *)

MaxDay == 30           \* day numbers 0..MaxDay; the default range is [0, MaxDay)
MaxStart == 1          \* start dates 0..MaxStart
MaxSeed == 1           \* price series 0..MaxSeed
HorizonSpan == 1       \* slider positions HorizonDefault..HorizonDefault+HorizonSpan
Window == 20           \* rolling(window=20)
HorizonMin == 30
HorizonMax == 180
HorizonDefault == 60

Horizons == {h \in HorizonMin..HorizonMax :
                h = HorizonMin \/ (h >= HorizonDefault /\ h <= HorizonDefault + HorizonSpan)}
StartDates == 0..MaxStart
EndDates == 0..MaxDay
EndChoices == {0, MaxDay - 1, MaxDay}

----------------------------------------------------------------------------
(* Cells *)

NaN == [nan |-> TRUE, num |-> 0, den |-> 1]
Num(n) == [nan |-> FALSE, num |-> n, den |-> 1]
Frac(n, d) == [nan |-> FALSE, num |-> n, den |-> d]

----------------------------------------------------------------------------
(* The market data source behind yf.download *)

IsTradingDay(d) == d % 7 < 5
Close(d) == 100 + ((d * d + seed * d) % 11)
Volume(d) == 1000 + ((7 * d) % 13)

Bad(d, col) == d = badDay /\ col = badCol

RawRow(d) ==
    [Date   |-> IF Bad(d, "ds") THEN NaN ELSE Num(d),
     Close  |-> IF Bad(d, "y") THEN NaN ELSE Num(Close(d)),
     Volume |-> IF Bad(d, "Volume") THEN NaN ELSE Num(Volume(d))]

\* yf.download("AAPL", start, end): one row per trading day in [start, end)
download(start, end) ==
    LET days == {d \in start..(end - 1) : IsTradingDay(d)}
        nth(k) == CHOOSE d \in days : Cardinality({e \in days : e < d}) = k - 1
    IN  [k \in 1..Cardinality(days) |-> RawRow(nth(k))]

----------------------------------------------------------------------------
(* load_data, lines 30-54 *)

\* df[["Close","Volume"]].rename, reset_index, rename Date -> ds
select_rename(raw) ==
    [k \in 1..Len(raw) |->
        [idx |-> k - 1, ds |-> raw[k].Date, y |-> raw[k].Close, Volume |-> raw[k].Volume]]

RECURSIVE SumY(_, _, _)
SumY(f, lo, hi) == IF lo > hi THEN 0 ELSE f[hi].y.num + SumY(f, lo, hi - 1)

\* rolling(window=20, center=True): the window reaches past row k
rolling_mean_centered(f, k) ==
    LET lo == k - (Window \div 2)
        hi == k + (Window \div 2) - 1
    IN  IF lo < 1 \/ hi > Len(f) \/ \E j \in lo..hi : f[j].y.nan
        THEN NaN
        ELSE Frac(SumY(f, lo, hi), Window)

\* rolling(window=20, min_periods=1): a mean over whatever rows exist
rolling_mean_min1(f, k) ==
    LET lo == IF k < Window THEN 1 ELSE k - Window + 1
    IN  IF \E j \in lo..k : f[j].y.nan
        THEN NaN
        ELSE Frac(SumY(f, lo, k), k - lo + 1)

\* df["y"].rolling(window=20).mean() at position k (min_periods = window)
rolling_mean(f, k) ==
    IF k < Window \/ \E j \in (k - Window + 1)..k : f[j].y.nan
    THEN NaN
    ELSE Frac(SumY(f, k - Window + 1, k), Window)

\* the fill pct_change applies first when fill_method is 'pad'
RECURSIVE ffill(_, _)
ffill(f, k) ==
    IF k < 1 THEN NaN
    ELSE IF f[k].y.nan /\ padFill THEN ffill(f, k - 1) ELSE f[k].y

\* pct_change(periods=-1): the change towards the following row
pct_change_forward(f, k) ==
    LET cur == ffill(f, k)
        nxt == IF k + 1 > Len(f) THEN NaN ELSE ffill(f, k + 1)
    IN  IF cur.nan \/ nxt.nan THEN NaN ELSE Frac(cur.num - nxt.num, nxt.num)

\* df["y"].pct_change() at position k: data / data.shift(1) - 1
pct_change(f, k) ==
    LET cur == ffill(f, k)
        prev == ffill(f, k - 1)
    IN  IF cur.nan \/ prev.nan THEN NaN ELSE Frac(cur.num - prev.num, prev.num)

\* pd.to_datetime / pd.to_numeric with errors="coerce" on datetime and float columns
coerce(c) == IF c.nan THEN NaN ELSE c

features(f) ==
    [k \in 1..Len(f) |->
        [idx    |-> f[k].idx,
         ds     |-> coerce(f[k].ds),
         y      |-> coerce(f[k].y),
         Volume |-> coerce(f[k].Volume),
         MA_20  |-> coerce(rolling_mean(f, k)),
         Return |-> coerce(pct_change(f, k))]]

DropSubset == {"ds", "y", "Volume", "MA_20", "Return"}

\* dropna with "Volume" left out of the subset
dropna_no_volume(f) ==
    LET keep(row) == \A c \in DropSubset \ {"Volume"} : ~row[c].nan
    IN  SelectSeq(f, keep)

dropna(f) ==
    LET keep(row) == \A c \in DropSubset : ~row[c].nan
    IN  SelectSeq(f, keep)

load_data(start, end) == dropna(features(select_rename(download(start, end))))

----------------------------------------------------------------------------
(* Prophet and the script body, lines 56-75 *)

\* regs, lines 60-66
regs ==
    (IF use_vol THEN <<"Volume">> ELSE <<>>) \o
    (IF use_ma THEN <<"MA_20">> ELSE <<>>) \o
    (IF use_ret THEN <<"Return">> ELSE <<>>)

RegSet(rs) == {rs[i] : i \in 1..Len(rs)}

NoModel == [fitted |-> FALSE, history_dates |-> <<>>, regressors |-> <<>>]

\* make_future_dataframe without the "dates > last_date" filter
make_future_dataframe_from_last(m, periods) ==
    LET hist == m.history_dates
        last_date == hist[Len(hist)]
        range == [k \in 1..(periods + 1) |-> last_date + (k - 1)]
    IN  hist \o SubSeq(range, 1, periods)

\* Prophet.make_future_dataframe(periods, freq="D", include_history=True)
make_future_dataframe(m, periods) ==
    LET hist == m.history_dates
        last_date == hist[Len(hist)]
        range == [k \in 1..(periods + 1) |-> last_date + (k - 1)]
        after == SelectSeq(range, LAMBDA d : d > last_date)
    IN  hist \o SubSeq(after, 1, periods)

\* df[regs].iloc[0]
first_vals(f, rs) == [r \in RegSet(rs) |-> f[1][r]]

\* df[regs].iloc[-1]
last_vals(f, rs) == [r \in RegSet(rs) |-> f[Len(f)][r]]

\* lines 70-73: every row of future gets the scalar last_vals[r]
future_frame(m, f, rs, periods) ==
    LET dates == make_future_dataframe(m, periods)
        lv == last_vals(f, rs)
    IN  [k \in 1..Len(dates) |-> [ds |-> dates[k], vals |-> lv]]

\* @st.cache_data, line 29: the entry is keyed by the call's arguments and kept
\* for the life of the process (no ttl, no max_entries)
cache_key(start, end) == <<start, end>>

cache_hit_never(key) == FALSE

cache_hit(key) == key \in DOMAIN cache

----------------------------------------------------------------------------
(* Actions *)

FreshRun(t) ==
    /\ df' = <<>>
    /\ model' = NoModel
    /\ future' = <<>>
    /\ forecast' = <<>>
    /\ events' = <<>>
    /\ trigger' = t
    /\ pc' = "load"

\* line 56 through the @st.cache_data wrapper of line 29
LoadData ==
    /\ pc = "load"
    /\ LET key == cache_key(start_date, end_date)
       IN  IF cache_hit(key)
           THEN /\ df' = cache[key]
                /\ UNCHANGED <<cache, events, fetched, refetch>>
           ELSE /\ df' = load_data(start_date, end_date)
                /\ cache' = [k \in DOMAIN cache \cup {key} |->
                                IF k = key THEN load_data(start_date, end_date) ELSE cache[k]]
                /\ events' = Append(events, "fetch")
                /\ fetched' = fetched \cup {key}
                /\ refetch' = (refetch \/ key \in fetched)
    /\ pc' = "fit"
    /\ UNCHANGED <<world, config, model, future, forecast, trigger>>

\* lines 59-68: Prophet.fit raises ValueError on fewer than 2 rows
Fit ==
    /\ pc = "fit"
    /\ events' = Append(events, "fit")
    /\ IF Len(df) < 2
       THEN /\ pc' = "error"
            /\ UNCHANGED model
       ELSE /\ pc' = "future"
            /\ model' = [fitted |-> TRUE,
                         history_dates |-> [k \in 1..Len(df) |-> df[k].ds.num],
                         regressors |-> regs]
    /\ UNCHANGED <<world, config, cache, df, future, forecast, trigger, fetched, refetch>>

\* lines 70-73
MakeFuture ==
    /\ pc = "future"
    /\ future' = future_frame(model, df, regs, horizon)
    /\ pc' = "predict"
    /\ UNCHANGED <<world, config, cache, df, model, forecast, trigger, events, fetched, refetch>>

\* line 75: one forecast row per row of future
Predict ==
    /\ pc = "predict"
    /\ forecast' = [k \in 1..Len(future) |-> future[k].ds]
    /\ events' = Append(events, "predict")
    /\ pc' = "done"
    /\ UNCHANGED <<world, config, cache, df, model, future, trigger, fetched, refetch>>

Idle == pc \in {"done", "error"}

\* lines 16-17
SetStartDate ==
    /\ Idle
    /\ \E d \in StartDates : d # start_date /\ start_date' = d
    /\ FreshRun("dates")
    /\ UNCHANGED <<world, end_date, horizon, use_vol, use_ma, use_ret, cache, fetched, refetch>>

\* lines 18-19
SetEndDate ==
    /\ Idle
    /\ \E d \in EndChoices : d # end_date /\ end_date' = d
    /\ FreshRun("dates")
    /\ UNCHANGED <<world, start_date, horizon, use_vol, use_ma, use_ret, cache, fetched, refetch>>

\* lines 21-22
SetHorizon ==
    /\ Idle
    /\ \E h \in Horizons : h # horizon /\ horizon' = h
    /\ FreshRun("horizon")
    /\ UNCHANGED <<world, start_date, end_date, use_vol, use_ma, use_ret, cache, fetched, refetch>>

\* line 25
ToggleVol ==
    /\ Idle
    /\ use_vol' = ~use_vol
    /\ FreshRun("regs")
    /\ UNCHANGED <<world, start_date, end_date, horizon, use_ma, use_ret, cache, fetched, refetch>>

\* line 26
ToggleMa ==
    /\ Idle
    /\ use_ma' = ~use_ma
    /\ FreshRun("regs")
    /\ UNCHANGED <<world, start_date, end_date, horizon, use_vol, use_ret, cache, fetched, refetch>>

\* line 27
ToggleRet ==
    /\ Idle
    /\ use_ret' = ~use_ret
    /\ FreshRun("regs")
    /\ UNCHANGED <<world, start_date, end_date, horizon, use_vol, use_ma, cache, fetched, refetch>>

----------------------------------------------------------------------------
(* Specifications *)

InitRun ==
    /\ cache = <<>>
    /\ df = <<>>
    /\ model = NoModel
    /\ future = <<>>
    /\ forecast = <<>>
    /\ pc = "load"
    /\ trigger = "start"
    /\ events = <<>>
    /\ fetched = {}
    /\ refetch = FALSE

\* the session as the script starts it: widget defaults; the feed is clean or
\* has one missing cell near the end of the default range
Init ==
    /\ seed = 0
    /\ \/ badDay = -1 /\ badCol = "none"
       \/ badDay = MaxDay - 2 /\ badCol \in {"y", "Volume"}
    /\ padFill = TRUE
    /\ start_date = 0
    /\ end_date = MaxDay
    /\ horizon = HorizonDefault
    /\ use_vol = TRUE
    /\ use_ma = TRUE
    /\ use_ret = TRUE
    /\ InitRun

\* one run of the script on any date range and any feed with at most one bad cell
InitPipeline ==
    /\ seed \in 0..MaxSeed
    /\ \/ badDay = -1 /\ badCol = "none"
       \/ badDay \in 0..MaxDay /\ badCol \in {"ds", "y", "Volume"}
    /\ padFill \in BOOLEAN
    /\ start_date \in StartDates
    /\ end_date \in EndDates
    /\ horizon = HorizonDefault
    /\ use_vol = TRUE
    /\ use_ma = TRUE
    /\ use_ret = TRUE
    /\ InitRun

NextRun == LoadData \/ Fit \/ MakeFuture \/ Predict

Next ==
    \/ NextRun
    \/ SetStartDate
    \/ SetEndDate
    \/ SetHorizon
    \/ ToggleVol
    \/ ToggleMa
    \/ ToggleRet

Spec == Init /\ [][Next]_vars

SpecPipeline == InitPipeline /\ [][NextRun]_vars

----------------------------------------------------------------------------
(* Properties *)

\* what the market data source returns for the configured range
raw == download(start_date, end_date)

Loaded == pc # "load"
Predicting == pc \in {"predict", "done"}
Valid(row) == ~row.Date.nan /\ ~row.Close.nan /\ ~row.Volume.nan
UsableCount == Cardinality({k \in 1..Len(raw) : Valid(raw[k])})
ValidYCount == Cardinality({k \in 1..Len(raw) : ~raw[k].Close.nan})

RECURSIVE TotalClose(_, _)
TotalClose(lo, hi) == IF lo > hi THEN 0 ELSE raw[lo].Close.num + TotalClose(lo + 1, hi)

\* C1: once the future frame is built, exactly `horizon` of its rows lie after the
\* last training date, and on each of them every selected regressor equals
\* its value in the last row of the training frame.
C1_CarryForward ==
    Predicting =>
        LET last == df[Len(df)]
            ext == {k \in 1..Len(future) : future[k].ds > last.ds.num}
        IN  /\ Cardinality(ext) = horizon
            /\ \A k \in ext : \A r \in RegSet(regs) :
                  /\ r \in DOMAIN future[k].vals
                  /\ future[k].vals[r] = last[r]

C1_Witness ==
    /\ pc = "done"
    /\ Len(regs) = 2
    /\ horizon = HorizonMin
    /\ Len(df) >= 2
    /\ df[1].Volume # df[Len(df)].Volume

\* C2: the frame load_data returns has no missing value in ds, y, Volume, MA_20
\* or Return, and each of its rows carries the source's own date, close and
\* volume for its index label (nothing is filled in).
C2_NoMissing ==
    Loaded =>
        \A k \in 1..Len(df) :
            LET i == df[k].idx + 1
            IN  /\ \A c \in {"ds", "y", "Volume", "MA_20", "Return"} : ~df[k][c].nan
                /\ i \in 1..Len(raw)
                /\ df[k].ds = raw[i].Date
                /\ df[k].y = raw[i].Close
                /\ df[k].Volume = raw[i].Volume

C2_Witness ==
    /\ Loaded
    /\ start_date < end_date
    /\ Len(df) >= 1
    /\ \E i \in Window..Len(raw) :
          /\ raw[i].Volume.nan
          /\ \A k \in 1..Len(df) : df[k].idx + 1 # i

\* C3: on every retained row, MA_20 is the mean of the 20 closes of the source
\* series that end at that row's index label; all 20 exist and none is missing.
C3_TrailingMean ==
    Loaded =>
        \A k \in 1..Len(df) :
            LET i == df[k].idx + 1
            IN  /\ i >= Window
                /\ \A j \in (i - Window + 1)..i : ~raw[j].Close.nan
                /\ ~df[k].MA_20.nan
                /\ df[k].MA_20.num * Window = df[k].MA_20.den * TotalClose(i - Window + 1, i)

C3_Witness ==
    /\ Loaded
    /\ Len(df) >= 3
    /\ df[1].MA_20 # df[2].MA_20

\* C4: on every retained row, Return is (y[i] - y[i-1]) / y[i-1] over the source
\* series, y[i-1] being the close of the row just before it.
C4_Return ==
    Loaded =>
        \A k \in 1..Len(df) :
            LET i == df[k].idx + 1
            IN  /\ i >= 2
                /\ ~raw[i].Close.nan
                /\ ~raw[i - 1].Close.nan
                /\ ~df[k].Return.nan
                /\ df[k].Return.num * raw[i - 1].Close.num
                     = df[k].Return.den * (raw[i].Close.num - raw[i - 1].Close.num)

C4_Witness ==
    /\ Loaded
    /\ \E k \in 1..Len(df) : df[k].Return.num < 0
    /\ \E k \in 1..Len(df) : df[k].Return.num > 0

\* C5 as stated: the future date axis has len(training dates) + horizon dates,
\* increases, and has no gap of a day anywhere.
C5_NoGapAnywhere ==
    Predicting =>
        /\ Len(future) = Len(df) + horizon
        /\ \A k \in 1..(Len(future) - 1) : future[k + 1].ds = future[k].ds + 1

\* C5 amended: the future date axis has len(training dates) + horizon dates and
\* is strictly increasing; it starts with the training dates as they are, and
\* the horizon dates are the consecutive days after the last training date.
C5_Axis ==
    Predicting =>
        /\ Len(future) = Len(df) + horizon
        /\ \A k \in 1..(Len(future) - 1) : future[k + 1].ds > future[k].ds
        /\ \A k \in 1..Len(df) : future[k].ds = df[k].ds.num
        /\ \A k \in 1..horizon : future[Len(df) + k].ds = df[Len(df)].ds.num + k

C5_Witness ==
    /\ pc = "done"
    /\ horizon = HorizonDefault + 1
    /\ \E k \in 1..(Len(df) - 1) : df[k + 1].ds.num > df[k].ds.num + 1

\* C6 as stated: with an empty training frame the run makes no fit call and no
\* predict call, produces no forecast, and ends in the error outcome.
C6_FitNotAttempted ==
    (Loaded /\ df = <<>>) =>
        /\ \A e \in 1..Len(events) : events[e] \notin {"fit", "predict"}
        /\ forecast = <<>>
        /\ pc \in {"fit", "error"}

\* C7 as stated: fewer than 21 usable source rows give an empty frame.
C7_Below21 ==
    (Loaded /\ UsableCount < 21) => df = <<>>

\* C7 amended: fewer than 20 source rows with a valid close give an empty frame;
\* exactly 20 rows, all usable, give a frame of one row.
C7_Below20 ==
    Loaded =>
        /\ ValidYCount < Window => df = <<>>
        /\ (Len(raw) = Window /\ UsableCount = Window) => Len(df) = 1

C7_Witness ==
    /\ Loaded
    /\ Len(raw) = Window
    /\ ValidYCount = Window - 1
    /\ df = <<>>

\* C8 as stated: a run started by a horizon or regressor change downloads
\* nothing and makes a fit call and a predict call; no key is downloaded twice.
C8_FitAndPredict ==
    /\ ~refetch
    /\ (Idle /\ trigger \in {"horizon", "regs"}) =>
          /\ \A e \in 1..Len(events) : events[e] # "fetch"
          /\ \E e \in 1..Len(events) : events[e] = "fit"
          /\ \E e \in 1..Len(events) : events[e] = "predict"

\* C8 amended: a run started by a horizon or regressor change downloads nothing,
\* works on the memoized frame and makes a fit call; it makes a predict call
\* whenever the fit succeeds (the frame has at least 2 rows); no key is ever
\* downloaded twice.
C8_Memoized ==
    /\ ~refetch
    /\ Loaded => df = cache[cache_key(start_date, end_date)]
    /\ (Idle /\ trigger \in {"horizon", "regs"}) =>
          /\ \A e \in 1..Len(events) : events[e] # "fetch"
          /\ \E e \in 1..Len(events) : events[e] = "fit"
          /\ Len(df) >= 2 => \E e \in 1..Len(events) : events[e] = "predict"

C8_Witness ==
    /\ pc = "done"
    /\ trigger = "regs"
    /\ events = <<"fit", "predict">>
    /\ Cardinality(fetched) >= 2

\* C9 as stated: with start >= end the run downloads nothing, fits nothing and
\* predicts nothing, and ends in the error outcome.
C9_NoComputation ==
    start_date >= end_date =>
        /\ events = <<>>
        /\ pc \in {"load", "error"}

\* C10 as stated: on the rows of the future frame that are training dates, every
\* selected regressor keeps the value it has on that date in the training frame.
C10_HistoryKept ==
    Predicting =>
        \A k \in 1..Len(df) : \A r \in RegSet(regs) :
            /\ future[k].ds = df[k].ds.num
            /\ future[k].vals[r] = df[k][r]

====
